---- MODULE Spec2Model ----
\* Model of the public profile page handler UserProfilePage
\* (src/src/app/u/[username]/page.tsx): one request, from the session check
\* to the redirect, the "User Not Found" view or the rendered profile.
\*
\* Strings are sequences of one-character strings.  A nullable value is a
\* sequence of length 0 (null) or 1 (the value).
EXTENDS Integers, Sequences, FiniteSets

\* ------------------------------------------------------------------ bounds
MaxLen == 3        \* longest raw username parameter
MaxProfiles == 2   \* most rows of user_profiles
MaxRows == 4       \* most rows of resources and study_groups together

\* --------------------------------------------------------------- constants
ResourceLimit == 3
StudyGroupLimit == 3

\* ------------------------------------------------------------------ strings
Chars == {"@", " ", "a", "A", "_", "%"}
NameChars == {"a", "A"}
Whitespace == {" "}

None == << >>
Some(x) == << x >>

SeqsUpTo(S, n) == UNION {[1..k -> S] : k \in 0..n}
Range(s) == {s[i] : i \in DOMAIN s}
IsInjective(s) == \A i, j \in DOMAIN s : s[i] = s[j] => i = j

\* String.prototype.startsWith("@")
StartsWithAt(s) == Len(s) > 0 /\ s[1] = "@"

\* String.prototype.substring(1)
Substring1(s) == SubSeq(s, 2, Len(s))

RECURSIVE TrimStart(_)
TrimStart(s) ==
    IF Len(s) > 0 /\ s[1] \in Whitespace THEN TrimStart(Tail(s)) ELSE s

RECURSIVE TrimEnd(_)
TrimEnd(s) ==
    IF Len(s) > 0 /\ s[Len(s)] \in Whitespace
    THEN TrimEnd(SubSeq(s, 1, Len(s) - 1))
    ELSE s

\* String.prototype.trim()
Trim(s) == TrimEnd(TrimStart(s))

\* The "@" branch forgets to trim.
NormalizeUsername_NoTrimAfterAt(p) ==
    IF StartsWithAt(p) THEN Substring1(p) ELSE Trim(p)

\* The plain branch forgets to trim.
NormalizeUsername_NoTrimPlain(p) ==
    IF StartsWithAt(p) THEN Trim(Substring1(p)) ELSE p

\* const cleanUsername = params.username.startsWith("@") ? ... : ...
NormalizeUsername(p) ==
    IF StartsWithAt(p) THEN Trim(Substring1(p)) ELSE Trim(p)

Lower(c) == IF c = "A" THEN "a" ELSE c

\* PostgreSQL  s ILIKE pat : "%" matches any run of characters, "_" any one
\* character, every other character matches itself up to letter case.
RECURSIVE ILike(_, _)
ILike(s, pat) ==
    IF pat = << >> THEN s = << >>
    ELSE IF Head(pat) = "%"
         THEN ILike(s, Tail(pat)) \/ (s # << >> /\ ILike(Tail(s), pat))
         ELSE /\ s # << >>
              /\ (Head(pat) = "_" \/ Lower(Head(pat)) = Lower(Head(s)))
              /\ ILike(Tail(s), Tail(pat))

\* Equality of two strings up to letter case.
RECURSIVE EqualsIgnoreCase(_, _)
EqualsIgnoreCase(s, t) ==
    IF s = << >> \/ t = << >> THEN s = t
    ELSE Lower(Head(s)) = Lower(Head(t)) /\ EqualsIgnoreCase(Tail(s), Tail(t))

\* ------------------------------------------------------------------- tables
\* Stored usernames: one or two letters.
ShortNames == [1..1 -> NameChars]
Names == ShortNames \cup [1..2 -> NameChars]

\* user_profiles: rows inserted in sequence, id = serial, usernames distinct.
Stores(names, n) == {s \in SeqsUpTo(names, n) : IsInjective(s)}
ProfileRows(s) == {[id |-> i, username |-> s[i]] : i \in DOMAIN s}

\* A row of resources / study_groups is drawn from eight kinds:
\* owner in {1, 2}, flag in BOOLEAN, created_at in {1, 2}.  A table is a
\* multiset of kinds, its ids the serial numbers.
Kinds == 0..7
KindOwner(k) == (k \div 4) + 1
KindFlag(k) == ((k \div 2) % 2) = 1
KindTime(k) == (k % 2) + 1
KindSeqs(n) == {t \in [1..n -> Kinds] : \A i \in 1..(n - 1) : t[i] <= t[i + 1]}

ResourceRows(t) ==
    {[id |-> i, author_id |-> KindOwner(t[i]), is_approved |-> KindFlag(t[i]),
      created_at |-> KindTime(t[i])] : i \in DOMAIN t}
StudyGroupRows(t) ==
    {[id |-> i, created_by |-> KindOwner(t[i]), is_private |-> KindFlag(t[i]),
      created_at |-> KindTime(t[i])] : i \in DOMAIN t}

\* --------------------------------------------------------- the query client
Min(a, b) == IF a < b THEN a ELSE b

\* .maybeSingle(): the row when exactly one matches, null when none does, and
\* null with an error when several do.
MaybeSingle(rows) ==
    [data  |-> IF Cardinality(rows) = 1 THEN Some(CHOOSE r \in rows : TRUE) ELSE None,
     error |-> Cardinality(rows) > 1]

\* A query the store fails: data null, error set.
Failure == [data |-> None, error |-> TRUE]

\* .order("created_at", { ascending: false }).limit(n): the first n rows of
\* some newest-first ordering of rows (rows of equal created_at in any order).
OrderDescLimit(rows, n) ==
    LET k == Min(Cardinality(rows), n) IN
    {s \in [1..k -> rows] :
        /\ IsInjective(s)
        /\ \A i \in 1..(k - 1) : s[i].created_at >= s[i + 1].created_at
        /\ \A r \in rows \ Range(s) : \A i \in 1..k : r.created_at <= s[i].created_at}

\* .from("user_profiles").select("*").eq("username", key)
ExactMatches(profiles, key) == {r \in profiles : r.username = key}

\* .from("user_profiles").select("*").ilike("username", key)
ILikeMatches(profiles, key) == {r \in profiles : ILike(r.username, key)}

\* The approval filter is missing.
ResourceMatches_NoApproved(tbl, profileId) ==
    {r \in tbl : r.author_id = profileId}

\* .from("resources").eq("author_id", id).eq("is_approved", true)
ResourceMatches(tbl, profileId) ==
    {r \in tbl : r.author_id = profileId /\ r.is_approved = TRUE}

\* .from("study_groups").eq("created_by", id).eq("is_private", false)
StudyGroupMatches(tbl, profileId) ==
    {r \in tbl : r.created_by = profileId /\ r.is_private = FALSE}

\* ------------------------------------------------------------- control flow
\* The session is ignored.
NextAfterSession_NoRedirect(sess) == "normalize"

\* if (session) { redirect(...) }
NextAfterSession(sess) == IF sess THEN "redirect" ELSE "normalize"

RedirectPrefix == "/dashboard/public-profile/"

\* The redirect reuses the normalized key.
RedirectTarget_Normalized(raw) == << RedirectPrefix >> \o NormalizeUsername(raw)

\* `/dashboard/public-profile/${params.username}`
RedirectTarget(raw) == << RedirectPrefix >> \o raw

\* An error of the exact lookup ends the lookup.
NextAfterExact_ErrorStops(data, error) ==
    IF error THEN "notFound"
    ELSE IF data = None THEN "fallback" ELSE "resources"

\* The fallback lookup is issued whatever the exact lookup returned.
NextAfterExact_AlwaysFallback(data, error) == "fallback"

\* let finalProfileData = profileData; if (!finalProfileData) { ... }
NextAfterExact(data, error) == IF data = None THEN "fallback" ELSE "resources"

\* The not-found return is missing.
NextAfterFallback_NoGuard(data) == "resources"

\* if (!finalProfileData) { return <User Not Found> }
NextAfterFallback(data) == IF data = None THEN "notFound" ELSE "resources"

\* {list && list.length > 0 ? cards : empty-state card}
TabContent(list) ==
    IF list # None /\ Len(list[1]) > 0
    THEN [kind |-> "cards", cards |-> list[1]]
    ELSE [kind |-> "empty", cards |-> << >>]

NoTab == [kind |-> "none", cards |-> << >>]

\* -------------------------------------------------------------------- state
VARIABLES
    username,          \* params.username
    authSession,       \* whether the auth provider holds a session
    user_profiles,     \* table user_profiles
    resourcesTable,    \* table resources
    studyGroupsTable,  \* table study_groups
    pc,                \* position of the handler
    session,           \* session as read by the handler
    cleanUsername,     \* the lookup key
    profileData,       \* data of the exact lookup
    finalProfileData,  \* the resolved profile row, or null
    resources,         \* data of the resources query
    studyGroups,       \* data of the study_groups query
    queries,           \* the external reads issued so far, in order
    errors,            \* the reads whose response carried an error object
    faults,            \* the reads the store itself failed
    outcome,           \* "none", "redirect", "notFound" or "profile"
    redirectTarget,    \* argument of redirect()
    resourcesTab,      \* rendered content of the Resources tab
    studyGroupsTab     \* rendered content of the Study Groups tab

vars == << username, authSession, user_profiles, resourcesTable, studyGroupsTable,
           pc, session, cleanUsername, profileData, finalProfileData, resources,
           studyGroups, queries, errors, faults, outcome, redirectTarget,
           resourcesTab, studyGroupsTab >>

db == << username, authSession, user_profiles, resourcesTable, studyGroupsTable >>

InitHandler ==
    /\ pc = "start"
    /\ session = FALSE
    /\ cleanUsername = << >>
    /\ profileData = None
    /\ finalProfileData = None
    /\ resources = None
    /\ studyGroups = None
    /\ queries = << >>
    /\ errors = {}
    /\ faults = {}
    /\ outcome = "none"
    /\ redirectTarget = << >>
    /\ resourcesTab = NoTab
    /\ studyGroupsTab = NoTab

\* Any parameter and any profile store; no resources or study groups.
Init ==
    /\ username \in SeqsUpTo(Chars, MaxLen)
    /\ authSession \in BOOLEAN
    /\ \E s \in Stores(Names, MaxProfiles) : user_profiles = ProfileRows(s)
    /\ resourcesTable = {}
    /\ studyGroupsTable = {}
    /\ InitHandler

\* A one-letter username and one-letter profiles; any resources and study
\* groups.
InitLists ==
    /\ username \in ShortNames
    /\ authSession \in BOOLEAN
    /\ \E s \in Stores(ShortNames, MaxProfiles) : user_profiles = ProfileRows(s)
    /\ \E nr \in 0..MaxRows : \E ng \in 0..(MaxRows - nr) :
         \E tr \in KindSeqs(nr) : \E tg \in KindSeqs(ng) :
            /\ resourcesTable = ResourceRows(tr)
            /\ studyGroupsTable = StudyGroupRows(tg)
    /\ InitHandler

\* ------------------------------------------------------------------ actions
\* await supabase.auth.getSession(); if (session) ...
GetSession ==
    /\ pc = "start"
    /\ session' = authSession
    /\ queries' = Append(queries, "getSession")
    /\ pc' = NextAfterSession(authSession)
    /\ UNCHANGED << db, cleanUsername, profileData, finalProfileData, resources,
                    studyGroups, errors, faults, outcome, redirectTarget,
                    resourcesTab, studyGroupsTab >>

\* redirect(`/dashboard/public-profile/${params.username}`) ends the request.
Redirect ==
    /\ pc = "redirect"
    /\ redirectTarget' = RedirectTarget(username)
    /\ outcome' = "redirect"
    /\ pc' = "done"
    /\ UNCHANGED << db, session, cleanUsername, profileData, finalProfileData,
                    resources, studyGroups, queries, errors, faults,
                    resourcesTab, studyGroupsTab >>

Normalize ==
    /\ pc = "normalize"
    /\ cleanUsername' = NormalizeUsername(username)
    /\ pc' = "exact"
    /\ UNCHANGED << db, session, profileData, finalProfileData, resources,
                    studyGroups, queries, errors, faults, outcome, redirectTarget,
                    resourcesTab, studyGroupsTab >>

ExactLookup ==
    /\ pc = "exact"
    /\ \E failed \in BOOLEAN :
         LET resp == IF failed THEN Failure
                     ELSE MaybeSingle(ExactMatches(user_profiles, cleanUsername))
         IN /\ profileData' = resp.data
            /\ finalProfileData' = resp.data
            /\ errors' = IF resp.error THEN errors \cup {"exact"} ELSE errors
            /\ faults' = IF failed THEN faults \cup {"exact"} ELSE faults
            /\ pc' = NextAfterExact(resp.data, resp.error)
    /\ queries' = Append(queries, "exact")
    /\ UNCHANGED << db, session, cleanUsername, resources, studyGroups, outcome,
                    redirectTarget, resourcesTab, studyGroupsTab >>

FallbackLookup ==
    /\ pc = "fallback"
    /\ \E failed \in BOOLEAN :
         LET resp == IF failed THEN Failure
                     ELSE MaybeSingle(ILikeMatches(user_profiles, cleanUsername))
         IN /\ finalProfileData' = resp.data
            /\ errors' = IF resp.error THEN errors \cup {"fallback"} ELSE errors
            /\ faults' = IF failed THEN faults \cup {"fallback"} ELSE faults
            /\ pc' = NextAfterFallback(resp.data)
    /\ queries' = Append(queries, "fallback")
    /\ UNCHANGED << db, session, cleanUsername, profileData, resources, studyGroups,
                    outcome, redirectTarget, resourcesTab, studyGroupsTab >>

RenderNotFound ==
    /\ pc = "notFound"
    /\ outcome' = "notFound"
    /\ pc' = "done"
    /\ UNCHANGED << db, session, cleanUsername, profileData, finalProfileData,
                    resources, studyGroups, queries, errors, faults, redirectTarget,
                    resourcesTab, studyGroupsTab >>

FetchResources ==
    /\ pc = "resources"
    /\ \/ /\ resources' = None
          /\ errors' = errors \cup {"resources"}
          /\ faults' = faults \cup {"resources"}
       \/ /\ \E list \in OrderDescLimit(
                   ResourceMatches(resourcesTable, finalProfileData[1].id),
                   ResourceLimit) : resources' = Some(list)
          /\ UNCHANGED << errors, faults >>
    /\ queries' = Append(queries, "resources")
    /\ pc' = "studyGroups"
    /\ UNCHANGED << db, session, cleanUsername, profileData, finalProfileData,
                    studyGroups, outcome, redirectTarget, resourcesTab,
                    studyGroupsTab >>

FetchStudyGroups ==
    /\ pc = "studyGroups"
    /\ \/ /\ studyGroups' = None
          /\ errors' = errors \cup {"studyGroups"}
          /\ faults' = faults \cup {"studyGroups"}
       \/ /\ \E list \in OrderDescLimit(
                   StudyGroupMatches(studyGroupsTable, finalProfileData[1].id),
                   StudyGroupLimit) : studyGroups' = Some(list)
          /\ UNCHANGED << errors, faults >>
    /\ queries' = Append(queries, "studyGroups")
    /\ pc' = "render"
    /\ UNCHANGED << db, session, cleanUsername, profileData, finalProfileData,
                    resources, outcome, redirectTarget, resourcesTab,
                    studyGroupsTab >>

Render ==
    /\ pc = "render"
    /\ resourcesTab' = TabContent(resources)
    /\ studyGroupsTab' = TabContent(studyGroups)
    /\ outcome' = "profile"
    /\ pc' = "done"
    /\ UNCHANGED << db, session, cleanUsername, profileData, finalProfileData,
                    resources, studyGroups, queries, errors, faults,
                    redirectTarget >>

Next ==
    \/ GetSession
    \/ Redirect
    \/ Normalize
    \/ ExactLookup
    \/ FallbackLookup
    \/ RenderNotFound
    \/ FetchResources
    \/ FetchStudyGroups
    \/ Render

Spec == Init /\ [][Next]_vars
SpecLists == InitLists /\ [][Next]_vars

\* ------------------------------------------------------------------- claims
Issued(q) == q \in Range(queries)
DataQueries == {"exact", "fallback", "resources", "studyGroups"}
ListQueries == {"resources", "studyGroups"}

\* The handler has computed the lookup key.
KeyComputed == ~session /\ pc \notin {"start", "normalize"}

NoOuterWhitespace(s) ==
    s = << >> \/ (s[1] \notin Whitespace /\ s[Len(s)] \notin Whitespace)

IsNewestFirst(list) ==
    \A i \in 1..(Len(list) - 1) : list[i].created_at >= list[i + 1].created_at

\* C1: once the auth provider has returned a session, the request issues no
\* data query, goes nowhere but to the redirect, and ends in the redirect,
\* whatever the username parameter is.
C1_SessionRedirectsWithoutQueries ==
    (pc # "start" /\ session) =>
        /\ Range(queries) \cap DataQueries = {}
        /\ pc \in {"redirect", "done"}
        /\ (pc = "done" => outcome = "redirect")

\* A request with a session and a parameter that normalizes to the empty key
\* has ended in the redirect.
C1_Witness ==
    pc = "done" /\ session /\ outcome = "redirect" /\ Len(username) > 0
    /\ NormalizeUsername(username) = << >>

\* C2 as stated: for every parameter u, the key the handler computes from u
\* equals the key computed from "@" + u.
C2_AtPrefixSameKey ==
    KeyComputed => cleanUsername = NormalizeUsername(<< "@" >> \o username)

\* C2 as amended: for every parameter u that does not begin with "@", the key
\* the handler computes from u equals the key computed from "@" + u.
C2_AtPrefixSameKeyUnlessAt ==
    (KeyComputed /\ ~StartsWithAt(username)) =>
        cleanUsername = NormalizeUsername(<< "@" >> \o username)

\* A key computed from a parameter with leading whitespace and no "@".
C2_Witness ==
    KeyComputed /\ Len(username) > 1 /\ username[1] \in Whitespace
    /\ cleanUsername # << >>

\* C3 as stated: with no session and no failing store, when no stored username
\* equals the key exactly and one equals it up to case, the request ends in
\* the profile view of such a row.
C3_FallbackResolvesCaseVariant ==
    ( /\ pc = "done" /\ ~session /\ faults = {}
      /\ ExactMatches(user_profiles, cleanUsername) = {}
      /\ \E r \in user_profiles : EqualsIgnoreCase(r.username, cleanUsername) )
    => /\ outcome = "profile"
       /\ finalProfileData # None
       /\ EqualsIgnoreCase(finalProfileData[1].username, cleanUsername)

\* C4: with no session, when the fallback lookup has been issued and no row is
\* resolved, the request goes nowhere but to the "User Not Found" view and
\* never queries resources or study_groups.
C4_NotFoundWithoutListQueries ==
    (~session /\ Issued("fallback") /\ finalProfileData = None) =>
        /\ pc \in {"notFound", "done"}
        /\ Range(queries) \cap ListQueries = {}
        /\ (pc = "done" => outcome = "notFound")

\* A request on a non-empty store, with no failing query, has ended in the
\* not-found view.
C4_Witness ==
    pc = "done" /\ outcome = "notFound" /\ user_profiles # {} /\ faults = {}
    /\ cleanUsername # << >>

\* C5: in a rendered profile view each list has at most 3 entries, newest
\* first, all owned by the resolved profile; every resource is approved and
\* no study group is private.
C5_RenderedListsFiltered ==
    outcome = "profile" =>
        LET rs == resourcesTab.cards
            gs == studyGroupsTab.cards
            id == finalProfileData[1].id
        IN /\ Len(rs) <= 3
           /\ \A i \in DOMAIN rs : rs[i].is_approved = TRUE /\ rs[i].author_id = id
           /\ IsNewestFirst(rs)
           /\ Len(gs) <= 3
           /\ \A i \in DOMAIN gs : gs[i].is_private = FALSE /\ gs[i].created_by = id
           /\ IsNewestFirst(gs)

\* A rendered view of a profile with more than 3 approved resources of two
\* creation times.
C5_Witness ==
    /\ outcome = "profile"
    /\ Len(resourcesTab.cards) = 3
    /\ Cardinality(ResourceMatches(resourcesTable, finalProfileData[1].id)) > 3
    /\ resourcesTab.cards[1].created_at > resourcesTab.cards[3].created_at

\* C6: an error object in a response is never surfaced.  After a failed exact
\* lookup the fallback lookup is issued; a failed fallback lookup leads to the
\* not-found view; a failed resources or study_groups query renders the tab
\* as an empty result set does; every finished request is a redirect, the
\* not-found view or the profile view.
C6_ErrorsNeverSurfaced ==
    /\ ("exact" \in errors /\ pc # "fallback") => Issued("fallback")
    /\ "fallback" \in errors =>
          pc \in {"notFound", "done"} /\ (pc = "done" => outcome = "notFound")
    /\ (pc = "done" /\ "resources" \in errors) =>
          /\ outcome = "profile"
          /\ resourcesTab = TabContent(Some(<< >>))
          /\ resourcesTab.kind = "empty"
    /\ (pc = "done" /\ "studyGroups" \in errors) =>
          /\ outcome = "profile"
          /\ studyGroupsTab = TabContent(Some(<< >>))
          /\ studyGroupsTab.kind = "empty"
    /\ pc = "done" => outcome \in {"redirect", "notFound", "profile"}

\* A rendered profile after a failed exact lookup and a failed resources
\* query, its study groups shown.
C6_Witness ==
    /\ pc = "done" /\ outcome = "profile"
    /\ "exact" \in faults /\ "resources" \in faults
    /\ studyGroupsTab.kind = "cards"

QueryRank(q) ==
    CASE q = "getSession" -> 1
      [] q = "exact" -> 2
      [] q = "fallback" -> 3
      [] q = "resources" -> 4
      [] q = "studyGroups" -> 5
      [] OTHER -> 0

\* C7: the reads issued are among the five, each at most once and in the order
\* session check, exact lookup, fallback lookup, resources, study groups; the
\* fallback lookup is issued exactly when the exact lookup was issued and
\* returned no row; resources and study groups are queried only with a
\* resolved profile row.
C7_ReadsInOrder ==
    /\ \A i \in DOMAIN queries : QueryRank(queries[i]) > 0
    /\ \A i, j \in DOMAIN queries :
          i < j => QueryRank(queries[i]) < QueryRank(queries[j])
    /\ Issued("fallback") => Issued("exact") /\ profileData = None
    /\ (Issued("exact") /\ profileData = None /\ pc # "fallback") => Issued("fallback")
    /\ (Issued("resources") \/ Issued("studyGroups")) => finalProfileData # None

\* A request that issued all five reads.
C7_Witness == pc = "done" /\ Len(queries) = 5

\* C8: the redirect target is "/dashboard/public-profile/" followed by the
\* raw parameter.
C8_RedirectKeepsRawParameter ==
    outcome = "redirect" =>
        /\ Len(redirectTarget) = Len(username) + 1
        /\ Head(redirectTarget) = "/dashboard/public-profile/"
        /\ Tail(redirectTarget) = username

\* A redirect for a parameter with a leading "@" and trailing whitespace.
C8_Witness ==
    /\ outcome = "redirect"
    /\ StartsWithAt(username)
    /\ username[Len(username)] \in Whitespace
    /\ NormalizeUsername(username) # << >>

\* C9 as stated: the username of a rendered profile equals the key up to
\* letter case.
C9_RenderedProfileMatchesKey ==
    outcome = "profile" =>
        EqualsIgnoreCase(finalProfileData[1].username, cleanUsername)

\* C10 as stated: normalizing the key returns the key, and the key neither
\* begins with "@" nor has leading or trailing whitespace.
C10_NormalizeIdempotent ==
    KeyComputed =>
        /\ NormalizeUsername(cleanUsername) = cleanUsername
        /\ ~StartsWithAt(cleanUsername)
        /\ NoOuterWhitespace(cleanUsername)

\* C10 as amended: the key has no leading or trailing whitespace, and
\* normalizing a key that does not begin with "@" returns it.
C10_KeyTrimmed ==
    KeyComputed =>
        /\ NoOuterWhitespace(cleanUsername)
        /\ (~StartsWithAt(cleanUsername) =>
               NormalizeUsername(cleanUsername) = cleanUsername)

\* A key computed from a parameter with a leading "@" and trailing whitespace.
C10_Witness ==
    /\ KeyComputed
    /\ StartsWithAt(username)
    /\ username[Len(username)] \in Whitespace
    /\ cleanUsername # << >>
    /\ Len(cleanUsername) < Len(username) - 1

====
